---- MODULE Spec2Model ----
(***************************************************************************)
(* A.U.R.A retention analytics: the Silver signal aggregation and health   *)
(* score (silver_transform.py), the Gold churn-risk classification,        *)
(* segmentation and recommendation (gold_agg.py) and the rule-based        *)
(* decision engine (rules_engine.py).                                      *)
(*                                                                         *)
(* Units: money in whole dollars (average_transaction_value in cents),     *)
(* engagement_score in thousandths, satisfaction and NPS averages in       *)
(* hundredths, current_health_score in tenths, timestamps as an age in     *)
(* whole days before datetime.now().  Rational arithmetic is exact with    *)
(* round-half-even at the places where the code calls round().             *)
(***************************************************************************)
EXTENDS Integers, Sequences, FiniteSets, TLC

VARIABLES
    customers_df,       \* Silver customer table: sequence of customer_pk
    transactions_df,    \* cleaned transaction rows
    engagement_df,      \* cleaned engagement event rows
    support_df,         \* cleaned support ticket rows
    surveys_df,         \* cleaned survey response rows
    pc,                 \* position of the batch
    silver_error,       \* exception raised by calculate_derived_metrics, or "none"
    customer_profiles,  \* silver_data['customer_profiles'] rows
    customer_360,       \* Gold customer 360 rows
    log,                \* records emitted through silver_transform's logger
    rule_weights,       \* AIModelParams.RULE_WEIGHTS as loaded
    engine,             \* RuleBasedDecisionEngine instance state
    customer_data,      \* the record handed to analyze_customer_risk
    risk_analysis,      \* its result
    batch_df,           \* the frame handed to process_customer_batch
    batch_results,      \* its result rows
    recommendations,    \* the result of generate_recommendations
    hash_seed,          \* the string hash seed of the interpreter (PYTHONHASHSEED)
    now,                \* the clock read by datetime.now()
    kpi_snapshot,       \* result of create_dashboard_kpis
    model_features,     \* result of create_ai_model_features
    chat_context,       \* result of create_chatbot_context
    gold_data,          \* the dictionary aggregate_silver_to_gold returns
    gold_error,         \* exception raised by aggregate_silver_to_gold, or "none"
    gold_files,         \* the parquet files under the Gold path
    bronze_data,        \* the dictionary _run_bronze_ingestion returns
    run,                \* position of run_complete_pipeline
    pipeline_status,    \* DataPipelineOrchestrator.pipeline_status
    pipeline_results,   \* the result record of run_complete_pipeline
    findings            \* what the three validations of a run have found

vars == <<customers_df, transactions_df, engagement_df, support_df, surveys_df,
          pc, silver_error, customer_profiles, customer_360, log,
          rule_weights, engine, customer_data, risk_analysis,
          batch_df, batch_results, recommendations, hash_seed,
          now, kpi_snapshot, model_features, chat_context, gold_data,
          gold_error, gold_files, bronze_data, run, pipeline_status,
          pipeline_results, findings>>

pipelineVars == <<customers_df, transactions_df, engagement_df, support_df,
                  surveys_df, pc, silver_error, customer_profiles, customer_360, log,
                  now, kpi_snapshot, model_features, chat_context, gold_data,
                  gold_error, gold_files, bronze_data, run, pipeline_status,
                  pipeline_results, findings>>

orchestratorVars == <<bronze_data, run, pipeline_status, pipeline_results, findings>>

goldVars == <<kpi_snapshot, model_features, chat_context, gold_data,
              gold_error, gold_files>>

engineVars == <<rule_weights, engine, customer_data, risk_analysis,
                batch_df, batch_results, recommendations, hash_seed>>

----------------------------------------------------------------------------
(* Bounds and input universes *)

MaxEvents == 2

\* pandas NaN / missing cell
NaN == -1000000

\* the last tick of the clock
MaxClock == 2

\* sort order of customer identifiers (groupby sorts its keys)
IdOrder == <<"c1", "c2", "c3", "cx">>

\* the columns clean_customer_data gives a customer: the standardized status and
\* plan, and account_creation_date as an age in days
CustomerRow(id) ==
    [customer_pk |-> id,
     account_status_standardized |->
        (CASE id = "c1" -> "Active" [] id = "c2" -> "Churned" [] OTHER -> "Trial"),
     current_subscription_plan |->
        (CASE id = "c1" -> "Premium" [] id = "c2" -> "Basic" [] OTHER -> "Custom"),
     account_creation_date |->
        (CASE id = "c1" -> 400 [] id = "c2" -> 20 [] OTHER -> 90)]

CustomerTables == { <<"c1">>, <<"c1", "c2">> }

TransactionRows ==
    { [customer_id |-> "c1", amount |-> 0,     age |-> 10],
      [customer_id |-> "c1", amount |-> 4000,  age |-> 40],
      [customer_id |-> "c2", amount |-> 11000, age |-> 10],
      [customer_id |-> "cx", amount |-> 4000,  age |-> 5] }

EngagementRows ==
    { [customer_id |-> "c1", event_type |-> "login",     age |-> 10],
      [customer_id |-> "c1", event_type |-> "page_view", age |-> 45],
      [customer_id |-> "c2", event_type |-> "login",     age |-> 0],
      [customer_id |-> "cx", event_type |-> "login",     age |-> 3] }

SupportRows ==
    { [customer_id |-> "c1", satisfaction_score |-> 2, age |-> 20],
      [customer_id |-> "c1", satisfaction_score |-> 5, age |-> 60],
      [customer_id |-> "c2", satisfaction_score |-> 4, age |-> 15],
      [customer_id |-> "cx", satisfaction_score |-> 1, age |-> 7] }

SurveyRows ==
    { [customer_id |-> "c1", nps_score |-> 3,  age |-> 30],
      [customer_id |-> "c1", nps_score |-> 9,  age |-> 90],
      [customer_id |-> "c2", nps_score |-> 2,  age |-> 12],
      [customer_id |-> "cx", nps_score |-> 10, age |-> 1] }

Collections(U) == { S \in SUBSET U : Cardinality(S) <= MaxEvents }

MaxPopulation == 2

----------------------------------------------------------------------------
(* Arithmetic helpers *)

\* sum of f[x] over the rows x of S
RECURSIVE SumOf(_, _)
SumOf(S, f) ==
    IF S = {} THEN 0
    ELSE LET x == CHOOSE y \in S : TRUE IN f[x] + SumOf(S \ {x}, f)

MinOf(S) == CHOOSE x \in S : \A y \in S : x <= y
MaxOf(S) == CHOOSE x \in S : \A y \in S : x >= y

\* round(num / den) to the nearest integer, ties to even (numpy round)
RoundHalfEven(num, den) ==
    LET q == num \div den
        r == num % den
    IN  IF 2 * r < den THEN q
        ELSE IF 2 * r > den THEN q + 1
        ELSE IF q % 2 = 0 THEN q ELSE q + 1

SeqToSet(s) == { s[i] : i \in 1..Len(s) }

RECURSIVE FlattenSeq(_)
FlattenSeq(ss) == IF ss = <<>> THEN <<>> ELSE Head(ss) \o FlattenSeq(Tail(ss))

----------------------------------------------------------------------------
(* Silver: per-source metric frames.  A frame is [columns, rows]: columns  *)
(* tells whether the metric columns exist, rows is a sequence of records.  *)

RowsOf(df, valid_customers) == { r \in df : r.customer_id \in valid_customers }

GroupKeys(df) ==
    SelectSeq(IdOrder, LAMBDA id : \E r \in df : r.customer_id = id)

Group(df, id) == { r \in df : r.customer_id = id }

Amount(g) == [r \in g |-> r.amount]
Satisfaction(g) == [r \in g |-> r.satisfaction_score]
Nps(g) == [r \in g |-> r.nps_score]

PkOnlyFrame(customers) ==
    [columns |-> FALSE,
     rows |-> [i \in 1..Len(customers) |-> [customer_pk |-> customers[i]]]]

calculate_transaction_metrics(customers, df) ==
    LET valid == RowsOf(df, SeqToSet(customers))
        keys  == GroupKeys(valid)
    IN  IF valid = {} THEN PkOnlyFrame(customers)
        ELSE [columns |-> TRUE,
              rows |-> [i \in 1..Len(keys) |->
                 LET g == Group(valid, keys[i]) IN
                 [customer_pk |-> keys[i],
                  total_lifetime_revenue |-> SumOf(g, Amount(g)),
                  average_transaction_value |->
                      RoundHalfEven(SumOf(g, Amount(g)) * 100, Cardinality(g)),
                  total_transactions_count |-> Cardinality(g),
                  days_since_last_transaction |-> MinOf({ r.age : r \in g })]]]

calculate_engagement_metrics(customers, df) ==
    LET valid == RowsOf(df, SeqToSet(customers))
        keys  == GroupKeys(valid)
    IN  IF valid = {} THEN PkOnlyFrame(customers)
        ELSE [columns |-> TRUE,
              rows |-> [i \in 1..Len(keys) |->
                 LET g    == Group(valid, keys[i])
                     days == MinOf({ r.age : r \in g })
                 IN
                 [customer_pk |-> keys[i],
                  total_engagement_events |-> Cardinality(g),
                  unique_event_types |-> Cardinality({ r.event_type : r \in g }),
                  days_since_last_engagement |-> days,
                  engagement_score |->
                      RoundHalfEven(30000 * Cardinality(g), days + 30)]]]

calculate_support_metrics(customers, df) ==
    LET valid == RowsOf(df, SeqToSet(customers))
        keys  == GroupKeys(valid)
    IN  IF valid = {} THEN PkOnlyFrame(customers)
        ELSE [columns |-> TRUE,
              rows |-> [i \in 1..Len(keys) |->
                 LET g == Group(valid, keys[i]) IN
                 [customer_pk |-> keys[i],
                  total_support_tickets_lifetime |-> Cardinality(g),
                  avg_satisfaction_score_lifetime |->
                      RoundHalfEven(SumOf(g, Satisfaction(g)) * 100, Cardinality(g)),
                  days_since_last_support_ticket |-> MinOf({ r.age : r \in g })]]]

calculate_survey_metrics(customers, df) ==
    LET valid == RowsOf(df, SeqToSet(customers))
        keys  == GroupKeys(valid)
    IN  IF valid = {} THEN PkOnlyFrame(customers)
        ELSE [columns |-> TRUE,
              rows |-> [i \in 1..Len(keys) |->
                 LET g == Group(valid, keys[i]) IN
                 [customer_pk |-> keys[i],
                  avg_nps_score_lifetime |->
                      RoundHalfEven(SumOf(g, Nps(g)) * 100, Cardinality(g)),
                  most_recent_nps_score |-> MaxOf({ r.nps_score : r \in g }),
                  days_since_last_survey |-> MinOf({ r.age : r \in g })]]]

\* the cells a left merge leaves empty for a row without a match
TransactionNaN ==
    [total_lifetime_revenue |-> NaN, average_transaction_value |-> NaN,
     total_transactions_count |-> NaN, days_since_last_transaction |-> NaN]
EngagementNaN ==
    [total_engagement_events |-> NaN, unique_event_types |-> NaN,
     days_since_last_engagement |-> NaN, engagement_score |-> NaN]
SupportNaN ==
    [total_support_tickets_lifetime |-> NaN, avg_satisfaction_score_lifetime |-> NaN,
     days_since_last_support_ticket |-> NaN]
SurveyNaN ==
    [avg_nps_score_lifetime |-> NaN, most_recent_nps_score |-> NaN,
     days_since_last_survey |-> NaN]

\* DataFrame.merge(right, on='customer_pk', how='left'): every left row, once
\* per matching right row, or once with empty cells when nothing matches
LeftMerge(left, right, empty) ==
    FlattenSeq([i \in 1..Len(left) |->
        LET m == SelectSeq(right, LAMBDA r : r.customer_pk = left[i].customer_pk)
        IN  IF m = <<>> THEN << left[i] @@ empty >>
            ELSE [j \in 1..Len(m) |-> left[i] @@ m[j]]])

----------------------------------------------------------------------------
(* Silver: composite health score *)

FillNa(x, default) == IF x = NaN THEN default ELSE x

\* Series / Series.max(): 0/0 is NaN, no exception is raised (values >= 0)
Undefined(maxv) == maxv = 0

\* (e/E * 0.4 + r/R * 0.3 + s/5 * 0.2 + n/10 * 0.1) * 100, rounded to one
\* decimal place; the result is in tenths.  e, E in thousandths, s in hundredths.
WeightedHealth(e, E, r, R, s, n) ==
    LET q1 == (400 * e) \div E
        r1 == (400 * e) % E
        q2 == (300 * r) \div R
        r2 == (300 * r) % R
        q3 == (2 * s) \div 5
        r3 == (2 * s) % 5
        D  == 5 * E * R
        F  == r1 * R * 5 + r2 * E * 5 + r3 * E * R
    IN  q1 + q2 + q3 + 10 * n + (F \div D)
          + (LET whole == q1 + q2 + q3 + 10 * n + (F \div D)
                 rem   == F % D
             IN  IF 2 * rem < D THEN 0
                 ELSE IF 2 * rem > D THEN 1
                 ELSE IF whole % 2 = 0 THEN 0 ELSE 1)

\* pd.cut(score, bins=[0, 40, 60, 80, 100], include_lowest=True)
HealthLevel(score) ==
    IF score = NaN \/ score < 0 \/ score > 1000 THEN "NaN"
    ELSE IF score <= 400 THEN "Poor"
    ELSE IF score <= 600 THEN "Fair"
    ELSE IF score <= 800 THEN "Good"
    ELSE "Excellent"

calculate_health_score(profiles) ==
    LET filled == [i \in 1..Len(profiles) |->
                     [profiles[i] EXCEPT
                        !.engagement_score = FillNa(@, 0),
                        !.total_lifetime_revenue = FillNa(@, 0),
                        !.avg_satisfaction_score_lifetime = FillNa(@, 0),
                        !.most_recent_nps_score = FillNa(@, 0)]]
        E == MaxOf({ filled[i].engagement_score : i \in 1..Len(filled) })
        R == MaxOf({ filled[i].total_lifetime_revenue : i \in 1..Len(filled) })
    IN  [i \in 1..Len(filled) |->
            LET score == IF Undefined(E) \/ Undefined(R) THEN NaN
                         ELSE WeightedHealth(filled[i].engagement_score, E,
                                             filled[i].total_lifetime_revenue, R,
                                             filled[i].avg_satisfaction_score_lifetime,
                                             filled[i].most_recent_nps_score)
            IN  [current_health_score |-> score,
                 health_level |-> HealthLevel(score)] @@ filled[i]]

\* the four merges of calculate_derived_metrics, in order
MergedProfiles(customers, tm, em, sm, vm) ==
    LET base == [i \in 1..Len(customers) |-> CustomerRow(customers[i])]
        p1 == LeftMerge(base, tm.rows, IF tm.columns THEN TransactionNaN ELSE <<>>)
        p2 == LeftMerge(p1, em.rows, IF em.columns THEN EngagementNaN ELSE <<>>)
        p3 == LeftMerge(p2, sm.rows, IF sm.columns THEN SupportNaN ELSE <<>>)
    IN  LeftMerge(p3, vm.rows, IF vm.columns THEN SurveyNaN ELSE <<>>)

Info(message, n) == [level |-> "INFO", message |-> message, count |-> n]

\* what calculate_derived_metrics returns or raises on the five tables:
\* _calculate_health_score reads customer_profiles['engagement_score'] and the
\* other three signal columns, which exist only if the source's merge added them
calculate_derived_metrics(customers, transactions, engagement, support, surveys) ==
    LET tm == calculate_transaction_metrics(customers, transactions)
        em == calculate_engagement_metrics(customers, engagement)
        sm == calculate_support_metrics(customers, support)
        vm == calculate_survey_metrics(customers, surveys)
        merged == MergedProfiles(customers, tm, em, sm, vm)
    IN  IF tm.columns /\ em.columns /\ sm.columns /\ vm.columns
        THEN [error |-> "none", profiles |-> calculate_health_score(merged)]
        ELSE [error |-> "KeyError", profiles |-> <<>>]

\* SilverTransform.calculate_derived_metrics
CalculateDerivedMetrics ==
    /\ pc = "start"
    /\ LET out == calculate_derived_metrics(customers_df, transactions_df,
                                            engagement_df, support_df, surveys_df)
       IN  /\ customer_profiles' = out.profiles
           /\ silver_error' = out.error
           /\ pc' = IF out.error = "none" THEN "silver_done" ELSE "silver_failed"
           /\ log' = log \o
                << Info("Calculating derived metrics for customer profiles", 0) >>
                \o (IF out.error = "none"
                    THEN << Info("Derived metrics calculation completed",
                                 Len(out.profiles)) >>
                    ELSE <<>>)
    /\ UNCHANGED <<customers_df, transactions_df, engagement_df, support_df,
                   surveys_df, customer_360, engineVars, now, goldVars,
                   orchestratorVars>>

----------------------------------------------------------------------------
(* Gold: churn risk, recommendation, segment (gold_agg.py) *)

\* comparisons against NaN are False
Lt(x, y) == x # NaN /\ x < y
Gt(x, y) == x # NaN /\ x > y

\* churn_probability += factor * weight in IEEE-754 double arithmetic.  A value
\* v stands for the double nearest v/100, or its neighbour one unit in the last
\* place away when v ends in 1 or 9: 61 is 0.6000000000000001 (0.4 + 0.2),
\* 31 is 0.30000000000000004 (0.2 + 0.1), 89 is 0.8999999999999999 (0.7 + 0.2),
\* 79 is 0.7999999999999999 (0.7 + 0.1).  Adding 0.0 changes nothing.
FloatAddExact(acc, w) == acc + w

FloatAdd(acc, w) ==
    IF w = 0 THEN acc
    ELSE IF (acc = 40 /\ w = 20) \/ (acc = 20 /\ w = 10) THEN acc + w + 1
    ELSE IF (acc = 70 /\ w = 20) \/ (acc = 70 /\ w = 10) THEN acc + w - 1
    ELSE acc + w

BoolInt(b) == IF b THEN 1 ELSE 0

low_engagement(c) ==
    Lt(c.engagement_score, 300) \/ Gt(c.days_since_last_engagement, 30)
low_revenue(c) == Lt(c.total_lifetime_revenue, 1000)
high_support_tickets(c) == Gt(c.total_support_tickets_lifetime, 5)
low_nps(c) == Lt(c.most_recent_nps_score, 3)

\* the running sum of lines 114-133, clipped to [0, 1]
ChurnProbability(c) ==
    LET p1 == FloatAdd(0,  BoolInt(low_engagement(c)) * 40)
        p2 == FloatAdd(p1, BoolInt(low_revenue(c)) * 30)
        p3 == FloatAdd(p2, BoolInt(high_support_tickets(c)) * 20)
        p4 == FloatAdd(p3, BoolInt(low_nps(c)) * 10)
    IN  IF p4 < 0 THEN 0 ELSE IF p4 > 100 THEN 100 ELSE p4

\* a cut whose Low bin reaches to 0.4
RiskLevelCutAtFourTenths(p) ==
    IF p <= 40 THEN "Low" ELSE IF p <= 60 THEN "Medium" ELSE "High"

\* pd.cut(churn_probability, bins=[0, 0.3, 0.6, 1.0], include_lowest=True)
RiskLevelCut(p) ==
    IF p <= 30 THEN "Low" ELSE IF p <= 60 THEN "Medium" ELSE "High"

calculate_churn_risk_levels(rows) ==
    [i \in 1..Len(rows) |->
        LET c == [rows[i] EXCEPT
                    !.engagement_score = FillNa(@, 0),
                    !.days_since_last_engagement = FillNa(@, 999),
                    !.most_recent_nps_score = FillNa(@, 0),
                    !.total_support_tickets_lifetime = FillNa(@, 0)]
            p == ChurnProbability(c)
        IN  [predicted_churn_probability |-> 10 * RoundHalfEven(p, 10),
             churn_risk_level |-> RiskLevelCut(p)] @@ c]

RecommendedActionEngagementFirst(customer) ==
    IF customer.churn_risk_level = "High" THEN
        IF Gt(customer.days_since_last_engagement, 30)
            THEN "Send personalized re-engagement campaign"
        ELSE IF Gt(customer.total_lifetime_revenue, 10000)
            THEN "Schedule proactive call with senior account manager"
        ELSE IF Lt(customer.most_recent_nps_score, 3)
            THEN "Conduct satisfaction survey and address concerns"
        ELSE "Offer retention discount or additional support"
    ELSE "Maintain current relationship"

RecommendedAction(customer) ==
    IF customer.churn_risk_level = "High" THEN
        IF Gt(customer.total_lifetime_revenue, 10000)
            THEN "Schedule proactive call with senior account manager"
        ELSE IF Gt(customer.days_since_last_engagement, 30)
            THEN "Send personalized re-engagement campaign"
        ELSE IF Lt(customer.most_recent_nps_score, 3)
            THEN "Conduct satisfaction survey and address concerns"
        ELSE "Offer retention discount or additional support"
    ELSE IF customer.churn_risk_level = "Medium" THEN
        IF Lt(customer.engagement_score, 500)
            THEN "Send educational content and feature highlights"
        ELSE IF Gt(customer.total_support_tickets_lifetime, 3)
            THEN "Proactive support check-in and training"
        ELSE "Regular check-in and relationship building"
    ELSE
        IF Gt(customer.total_lifetime_revenue, 5000)
            THEN "Identify upsell opportunities"
        ELSE "Maintain current relationship"

\* an upsell flag that looks at the revenue only
UpsellFlagIgnoringRisk(customer) == Gt(customer.total_lifetime_revenue, 3000)

UpsellFlag(customer) ==
    customer.churn_risk_level = "Low" /\ Gt(customer.total_lifetime_revenue, 3000)

CrossSellFlagInclusive(customer) ==
    customer.churn_risk_level = "Low" /\ customer.engagement_score >= 700

CrossSellFlag(customer) ==
    customer.churn_risk_level = "Low" /\ Gt(customer.engagement_score, 700)

generate_recommendations(rows) ==
    [i \in 1..Len(rows) |->
        [recommended_action |-> RecommendedAction(rows[i]),
         upsell_opportunity_flag |-> UpsellFlag(rows[i]),
         cross_sell_opportunity_flag |-> CrossSellFlag(rows[i])] @@ rows[i]]

ClientSegmentInclusive(customer) ==
    IF customer.total_lifetime_revenue >= 20000 THEN
        IF customer.churn_risk_level = "Low" THEN "High-Value"
        ELSE "High-Value At-Risk"
    ELSE IF customer.total_lifetime_revenue >= 5000 THEN
        IF customer.churn_risk_level = "Low" THEN "Medium-Value"
        ELSE "Medium-Value At-Risk"
    ELSE
        IF customer.churn_risk_level = "Low" THEN "SMB"
        ELSE "SMB At-Risk"

ClientSegment(customer) ==
    IF Gt(customer.total_lifetime_revenue, 20000) THEN
        IF customer.churn_risk_level = "Low" THEN "High-Value"
        ELSE "High-Value At-Risk"
    ELSE IF Gt(customer.total_lifetime_revenue, 5000) THEN
        IF customer.churn_risk_level = "Low" THEN "Medium-Value"
        ELSE "Medium-Value At-Risk"
    ELSE
        IF customer.churn_risk_level = "Low" THEN "SMB"
        ELSE "SMB At-Risk"

calculate_client_segments(rows) ==
    [i \in 1..Len(rows) |-> [client_segment |-> ClientSegment(rows[i])] @@ rows[i]]

\* the states of numpy's global random generator a batch may start from
RandomStates == {0, 1}

\* np.random.uniform(-10, 25, n).round(1) in tenths, np.random.randint(0, 3, n)
RandomGrowth(seed, i) == IF (seed + i) % 2 = 0 THEN -37 ELSE 184
RandomOpenTickets(seed, i) == (seed + i) % 3

calculate_revenue_metrics(rows, seed) ==
    [i \in 1..Len(rows) |->
        [MRR_current_month |->
            IF rows[i].average_transaction_value = NaN THEN NaN
            ELSE RoundHalfEven(rows[i].average_transaction_value * 3, 10),
         YOY_MRR_growth_percentage |-> RandomGrowth(seed, i),
         days_since_signup |-> rows[i].account_creation_date,
         last_active_date |-> rows[i].days_since_last_engagement,
         avg_engagement_score_90d |-> rows[i].engagement_score,
         open_support_tickets_count |-> RandomOpenTickets(seed, i)] @@ rows[i]]

\* dashboard_columns of create_customer_360_view
DashboardColumns ==
    {"customer_pk", "first_name", "last_name", "email_address",
     "current_subscription_plan", "account_status_standardized",
     "days_since_signup", "current_health_score", "health_level",
     "churn_risk_level", "predicted_churn_probability", "recommended_action",
     "upsell_opportunity_flag", "cross_sell_opportunity_flag",
     "last_active_date", "MRR_current_month", "YOY_MRR_growth_percentage",
     "avg_engagement_score_90d", "most_recent_nps_score",
     "open_support_tickets_count", "client_segment", "total_lifetime_revenue",
     "engagement_score", "days_since_last_engagement",
     "total_support_tickets_lifetime"}

\* customer_360[available_columns]
SelectColumns(row, columns) == [c \in (DOMAIN row) \cap columns |-> row[c]]

\* GoldAggregation.create_customer_360_view: the refresh timestamp is added
\* before the column selection, whose list does not name it
create_customer_360_view(profiles, seed, t) ==
    LET full == calculate_revenue_metrics(
                   calculate_client_segments(
                      generate_recommendations(
                         calculate_churn_risk_levels(profiles))), seed)
    IN  [i \in 1..Len(full) |->
            SelectColumns([dashboard_data_last_refreshed_at |-> t] @@ full[i],
                          DashboardColumns)]

\* the clock does not run backwards; it may advance between two readings
Tick(t) == IF t < MaxClock THEN {t, t + 1} ELSE {t}

\* datetime.now().date(): two ticks to the day
DateOf(t) == t \div 2

CreateCustomer360View ==
    /\ pc \in {"silver_done", "gold_done"}
    /\ \E seed \in RandomStates :
         customer_360' = create_customer_360_view(customer_profiles, seed, now)
    /\ now' \in Tick(now)
    /\ pc' = "gold_done"
    /\ UNCHANGED <<customers_df, transactions_df, engagement_df, support_df,
                   surveys_df, silver_error, customer_profiles, log, engineVars,
                   goldVars,
                   orchestratorVars>>

----------------------------------------------------------------------------
(* Gold: KPI snapshot, model features, chatbot context (gold_agg.py).  A   *)
(* built table is [error, rows]; error names the exception the builder     *)
(* raised, or "none".                                                      *)

\* the keys of gold_data, in the order aggregate_silver_to_gold inserts them
GoldTables ==
    << "customer_360_dashboard_view", "overall_kpi_dashboard_view",
       "ai_model_features_for_churn_prediction", "ai_chatbot_context" >>

\* a dictionary of tables as the set of its keys and their rows (<<>> when absent)
NoGoldData == [keys |-> {}, tables |-> [n \in SeqToSet(GoldTables) |-> <<>>]]

\* gold_<table>.parquet for every table: no file written yet
NoFiles == [n \in SeqToSet(GoldTables) |-> <<>>]

NoTable == [error |-> "not built", rows |-> <<>>]
Built(rows) == [error |-> "none", rows |-> rows]
Raised(exception) == [error |-> exception, rows |-> <<>>]

\* customer_360[c] raises KeyError unless the frame has the column
HasColumn(rows, c) == \A i \in 1..Len(rows) : c \in DOMAIN rows[i]

RECURSIVE SeqSum(_)
SeqSum(values) == IF values = <<>> THEN 0 ELSE Head(values) + SeqSum(Tail(values))

\* the non-null cells of a column; Series.sum() and Series.mean() skip NaN
Cells(rows, c) ==
    SelectSeq([i \in 1..Len(rows) |-> rows[i][c]], LAMBDA v : v # NaN)

\* round(Series.mean() * scale), NaN when every cell is null
MeanOf(rows, c, scale) ==
    LET cells == Cells(rows, c)
    IN  IF cells = <<>> THEN NaN
        ELSE RoundHalfEven(scale * SeqSum(cells), Len(cells))

CountWhere(rows, test(_)) == Cardinality({ i \in 1..Len(rows) : test(rows[i]) })

ChurnReasons ==
    << "Low Engagement", "High Support Tickets", "Low NPS Score", "Low Revenue" >>

\* _get_top_churn_reasons: the three largest counts, list.sort being stable
get_top_churn_reasons(customer_360_rows) ==
    LET count == << CountWhere(customer_360_rows, LAMBDA c : Lt(c.engagement_score, 300)),
                    CountWhere(customer_360_rows,
                               LAMBDA c : Gt(c.total_support_tickets_lifetime, 5)),
                    CountWhere(customer_360_rows,
                               LAMBDA c : Lt(c.most_recent_nps_score, 3)),
                    CountWhere(customer_360_rows,
                               LAMBDA c : Lt(c.total_lifetime_revenue, 1000)) >>
        rank(i) == 1 + Cardinality({ j \in 1..4 :
                        count[j] > count[i] \/ (count[j] = count[i] /\ j < i) })
    IN  [k \in 1..3 |->
            LET i == CHOOSE x \in 1..4 : rank(x) = k
            IN  [reason |-> ChurnReasons[i], count |-> count[i]]]

\* GoldAggregation.create_dashboard_kpis: one row; retention divides two Python
\* ints, so a view without Active and without Churned customers raises
create_dashboard_kpis(customer_360_rows, t) ==
    LET total_active_clients ==
            CountWhere(customer_360_rows,
                       LAMBDA c : c.account_status_standardized = "Active")
        churned_clients_30d ==
            CountWhere(customer_360_rows,
                       LAMBDA c : c.account_status_standardized = "Churned")
        new_clients_30d ==
            CountWhere(customer_360_rows,
                       LAMBDA c : c.days_since_signup # NaN /\ c.days_since_signup <= 30)
        mrr == SeqSum(Cells(customer_360_rows, "MRR_current_month"))
    IN  IF total_active_clients + churned_clients_30d = 0
        THEN Raised("ZeroDivisionError")
        ELSE Built(<< [report_date |-> DateOf(t),
                       total_active_clients |-> total_active_clients,
                       new_clients_count_daily |-> new_clients_30d \div 30,
                       churned_clients_count_daily |-> churned_clients_30d \div 30,
                       monthly_recurring_revenue_total |-> mrr,
                       annual_recurring_revenue_total |-> mrr * 12,
                       overall_nps_average |->
                           MeanOf(customer_360_rows, "most_recent_nps_score", 10),
                       overall_retention_rate_30d |->
                           RoundHalfEven(total_active_clients * 1000,
                                         total_active_clients + churned_clients_30d),
                       overall_engagement_index |->
                           MeanOf(customer_360_rows, "current_health_score", 1),
                       top_churn_reasons_summary |->
                           get_top_churn_reasons(customer_360_rows)] >>)

SubscriptionTier(plan) ==
    CASE plan = "Basic" -> 1 [] plan = "Standard" -> 2 [] plan = "Premium" -> 3
      [] plan = "Enterprise" -> 4 [] OTHER -> 1

\* GoldAggregation.create_ai_model_features: the first column it reads after
\* customer_pk is total_engagement_events
create_ai_model_features(customer_360_rows, t) ==
    IF ~HasColumn(customer_360_rows, "total_engagement_events")
    THEN Raised("KeyError")
    ELSE Built([i \in 1..Len(customer_360_rows) |->
            LET c == customer_360_rows[i] IN
            [customer_pk |-> c.customer_pk,
             feature_snapshot_date |-> DateOf(t),
             feature_avg_daily_active_events_90d |->
                 IF c.total_engagement_events = NaN THEN NaN
                 ELSE RoundHalfEven(c.total_engagement_events * 1000, 90),
             feature_total_transaction_value_60d |-> c.total_lifetime_revenue * 20,
             feature_support_tickets_30d_count |->
                 RoundHalfEven(c.total_support_tickets_lifetime, 10),
             feature_days_since_last_login |-> c.days_since_last_engagement,
             feature_last_nps_score |-> c.most_recent_nps_score,
             feature_churn_history_365d_flag |->
                 BoolInt(c.account_status_standardized = "Churned"),
             feature_subscription_plan_tier |->
                 SubscriptionTier(c.current_subscription_plan),
             feature_age_of_account_days |-> c.days_since_signup,
             target_churned_next_30d |-> BoolInt(c.churn_risk_level = "High")]])

get_relevant_strategies(customer) ==
    IF customer.churn_risk_level = "High"
        THEN "Proactive Outreach, Retention Discount, Senior Account Manager"
    ELSE IF customer.churn_risk_level = "Medium"
        THEN "Educational Content, Regular Check-in, Feature Training"
    ELSE "Upsell Opportunities, Cross-sell Campaign, Relationship Building"

get_segment_churn_factors(segment) ==
    CASE segment = "High-Value" ->
            "Price sensitivity, feature limitations, competitive pressure"
      [] segment = "Medium-Value" ->
            "Support quality, feature adoption, onboarding issues"
      [] segment = "SMB" ->
            "Budget constraints, feature complexity, support response time"
      [] OTHER -> "General engagement and satisfaction factors"

\* _get_support_summary reads avg_satisfaction_score_lifetime only for a
\* customer with at most 5 tickets
SupportSummaryNeedsSatisfaction(customer) ==
    ~Gt(customer.total_support_tickets_lifetime, 5)

get_support_summary(customer) ==
    IF Gt(customer.total_support_tickets_lifetime, 5)
        THEN "Multiple support tickets - proactive support recommended"
    ELSE IF Lt(customer.avg_satisfaction_score_lifetime, 300)
        THEN "Low satisfaction scores - support quality improvement needed"
    ELSE "Good support experience - maintain current service level"

KeyInsights(customer) ==
    (IF customer.churn_risk_level = "High"
        THEN << "High churn risk - immediate attention needed" >> ELSE <<>>)
    \o (IF Lt(customer.engagement_score, 300)
        THEN << "Low engagement - re-engagement campaign recommended" >> ELSE <<>>)
    \o (IF Lt(customer.most_recent_nps_score, 3)
        THEN << "Low satisfaction - support intervention needed" >> ELSE <<>>)

\* GoldAggregation.create_chatbot_context: one record per row of the view,
\* each stamped with its own datetime.now(), times[i]
create_chatbot_context(customer_360_rows, times) ==
    IF \E i \in 1..Len(customer_360_rows) :
          /\ SupportSummaryNeedsSatisfaction(customer_360_rows[i])
          /\ "avg_satisfaction_score_lifetime" \notin DOMAIN customer_360_rows[i]
    THEN Raised("KeyError")
    ELSE Built([i \in 1..Len(customer_360_rows) |->
            LET c == customer_360_rows[i] IN
            [customer_pk |-> c.customer_pk,
             context_last_updated_at |-> times[i],
             curated_client_summary |->
                 << c.current_subscription_plan, c.current_health_score,
                    c.churn_risk_level >>,
             key_insights_last_month |->
                 IF KeyInsights(c) = <<>> THEN << "Customer in good standing" >>
                 ELSE KeyInsights(c),
             relevant_playbook_strategies |-> get_relevant_strategies(c),
             historical_churn_factors_for_segment |->
                 get_segment_churn_factors(c.client_segment),
             recent_support_issues_summary |-> get_support_summary(c)]])

\* the readings of the clock while n rows are built, starting at t
RowTimes(n, t) ==
    { [i \in 1..n |-> IF i <= k THEN t ELSE t + 1] : k \in 0..n }
      \cap [1..n -> 0..MaxClock]

CreateDashboardKpis ==
    /\ pc = "gold_done"
    /\ kpi_snapshot' = create_dashboard_kpis(customer_360, now)
    /\ now' \in Tick(now)
    /\ UNCHANGED <<customers_df, transactions_df, engagement_df, support_df,
                   surveys_df, pc, silver_error, customer_profiles, customer_360,
                   log, engineVars, model_features, chat_context, gold_data,
                   gold_error, gold_files,
                   orchestratorVars>>

CreateAiModelFeatures ==
    /\ pc = "gold_done"
    /\ model_features' = create_ai_model_features(customer_360, now)
    /\ now' \in Tick(now)
    /\ UNCHANGED <<customers_df, transactions_df, engagement_df, support_df,
                   surveys_df, pc, silver_error, customer_profiles, customer_360,
                   log, engineVars, kpi_snapshot, chat_context, gold_data,
                   gold_error, gold_files,
                   orchestratorVars>>

CreateChatbotContext ==
    /\ pc = "gold_done"
    /\ \E times \in RowTimes(Len(customer_360), now) :
         /\ chat_context' = create_chatbot_context(customer_360, times)
         /\ now' = times[Len(customer_360)]
    /\ UNCHANGED <<customers_df, transactions_df, engagement_df, support_df,
                   surveys_df, pc, silver_error, customer_profiles, customer_360,
                   log, engineVars, kpi_snapshot, model_features, gold_data,
                   gold_error, gold_files,
                   orchestratorVars>>

----------------------------------------------------------------------------
(* Rule-based decision engine (rules_engine.py).  Risk factors and weights *)
(* in tenths, composite risk in hundredths.                                *)

\* AIModelParams.RULE_WEIGHTS, and a configuration whose weights sum to 0.9
DefaultRuleWeights == [engagement |-> 4, revenue |-> 3, support |-> 2, nps |-> 1]
WeightFixtures ==
    { DefaultRuleWeights,
      [engagement |-> 4, revenue |-> 3, support |-> 1, nps |-> 1] }

WeightSum(w) == w.engagement + w.revenue + w.support + w.nps

NoAnalysis == [risk_level |-> "none"]
NoEngine == [constructed |-> FALSE]

CustomerRecords ==
    [ engagement_score : {200, 400, 900},
      days_since_last_engagement : {5, 45, 120},
      total_lifetime_revenue : {500, 3000, 8000, 12000},
      average_transaction_value : {5000, 20000},
      total_support_tickets_lifetime : {2, 7, 12},
      avg_satisfaction_score_lifetime : {250, 350, 450},
      most_recent_nps_score : {5, 7, 9} ]

\* a cell that holds text where a number is expected (object dtype)
NonNumeric == -2000000

BatchRowOf(c, id) == [customer_pk |-> id] @@ c

\* frames for process_customer_batch: the customer alone, the customer followed
\* by a copy with a non-numeric engagement_score, a copy with non-numeric revenue
\* followed by the customer
BatchesOf(c) ==
    { << BatchRowOf(c, "c1") >>,
      << BatchRowOf(c, "c1"),
         BatchRowOf([c EXCEPT !.engagement_score = NonNumeric], "c2") >>,
      << BatchRowOf([c EXCEPT !.total_lifetime_revenue = NonNumeric], "c1"),
         BatchRowOf(c, "c2") >> }

NoCustomer ==
    [ engagement_score |-> 0, days_since_last_engagement |-> 0,
      total_lifetime_revenue |-> 0, average_transaction_value |-> 0,
      total_support_tickets_lifetime |-> 0, avg_satisfaction_score_lifetime |-> 0,
      most_recent_nps_score |-> 0 ]

\* RuleBasedDecisionEngine.__init__: the weights are taken as they are
EngineInit ==
    /\ engine = NoEngine
    /\ engine' = [constructed |-> TRUE,
                  rule_weights |-> rule_weights,
                  high_risk_threshold |-> 70,
                  medium_risk_threshold |-> 40]
    /\ UNCHANGED <<rule_weights, customer_data, risk_analysis, batch_df,
                   batch_results, recommendations, hash_seed, pipelineVars>>

RiskFactors(c) ==
    LET revenue_base ==
            IF Lt(c.total_lifetime_revenue, 1000) THEN 7
            ELSE IF Lt(c.total_lifetime_revenue, 5000) THEN 4 ELSE 1
        satisfaction_base ==
            IF Lt(c.avg_satisfaction_score_lifetime, 300) THEN 9
            ELSE IF Lt(c.avg_satisfaction_score_lifetime, 400) THEN 6 ELSE 1
    IN
    [ engagement_risk |->
          IF Lt(c.engagement_score, 300) THEN 8
          ELSE IF Lt(c.engagement_score, 500) THEN 5 ELSE 2,
      activity_risk |->
          IF Gt(c.days_since_last_engagement, 90) THEN 9
          ELSE IF Gt(c.days_since_last_engagement, 30) THEN 6 ELSE 1,
      revenue_risk |->
          IF Lt(c.average_transaction_value, 10000)
          THEN (IF revenue_base + 3 > 10 THEN 10 ELSE revenue_base + 3)
          ELSE revenue_base,
      support_risk |->
          IF Gt(c.total_support_tickets_lifetime, 10) THEN 8
          ELSE IF Gt(c.total_support_tickets_lifetime, 5) THEN 5 ELSE 2,
      satisfaction_risk |->
          IF c.most_recent_nps_score # NaN /\ c.most_recent_nps_score <= 6
              THEN (IF satisfaction_base > 8 THEN satisfaction_base ELSE 8)
          ELSE IF c.most_recent_nps_score # NaN /\ c.most_recent_nps_score <= 7
              THEN (IF satisfaction_base > 5 THEN satisfaction_base ELSE 5)
          ELSE satisfaction_base ]

CompositeRisk(f, w) ==
    f.engagement_risk * w.engagement + f.revenue_risk * w.revenue
      + f.support_risk * w.support + f.satisfaction_risk * w.nps
      + f.activity_risk * 1

EngineRiskLevel(composite_risk, high, medium) ==
    IF composite_risk >= high THEN "High"
    ELSE IF composite_risk >= medium THEN "Medium"
    ELSE "Low"

KeyFactors(f) ==
    { name \in {"Engagement", "Revenue", "Support", "Satisfaction", "Activity"} :
        CASE name = "Engagement"   -> f.engagement_risk > 6
          [] name = "Revenue"      -> f.revenue_risk > 6
          [] name = "Support"      -> f.support_risk > 6
          [] name = "Satisfaction" -> f.satisfaction_risk > 6
          [] name = "Activity"     -> f.activity_risk > 6 }

\* the factor combinations whose float64 weighted sum exceeds 0.7 although the
\* exact sum is 0.70, as <<support weight, engagement, revenue, support,
\* satisfaction, activity risk>>
FloatAboveSeventy ==
    { <<2, 8, 4, 8, 1, 9>>, <<2, 8, 4, 8, 9, 1>>, <<1, 8, 7, 2, 6, 9>>,
      <<1, 8, 7, 5, 6, 6>>, <<1, 8, 7, 8, 8, 1>>, <<1, 8, 10, 2, 5, 1>>,
      <<1, 5, 10, 5, 6, 9>>, <<1, 5, 10, 8, 6, 6>> }

\* _calculate_confidence: np.var of the five factors below 0.1 (0.2), with the
\* factors in tenths 5 * sum(x^2) - sum(x)^2 below 250 (500)
Confidence(f, w) ==
    LET xs == << f.engagement_risk, f.revenue_risk, f.support_risk,
                 f.satisfaction_risk, f.activity_risk >>
        spread == 5 * SeqSum([i \in 1..5 |-> xs[i] * xs[i]]) - SeqSum(xs) * SeqSum(xs)
        composite_risk == CompositeRisk(f, w)
        above == \/ composite_risk > 70
                 \/ /\ composite_risk = 70
                    /\ << w.support, f.engagement_risk, f.revenue_risk, f.support_risk,
                          f.satisfaction_risk, f.activity_risk >> \in FloatAboveSeventy
    IN  IF spread < 250 /\ above THEN "High"
        ELSE IF spread < 500 THEN "Medium"
        ELSE "Low"

\* the comparisons of analyze_customer_risk raise TypeError on a text cell
AnalysisRaises(c) ==
    \E field \in DOMAIN c : field # "customer_pk" /\ c[field] = NonNumeric

analyze_customer_risk(c, e) ==
    LET f == RiskFactors(c)
        composite_risk == CompositeRisk(f, e.rule_weights)
    IN  [ risk_level |-> EngineRiskLevel(composite_risk, e.high_risk_threshold,
                                         e.medium_risk_threshold),
          composite_risk_score |-> composite_risk,
          risk_factors |-> f,
          key_factors |-> KeyFactors(f),
          confidence |-> Confidence(f, e.rule_weights) ]

\* _calculate_priority
calculate_priority(risk_level, c) ==
    IF risk_level = "High" /\ Gt(c.total_lifetime_revenue, 10000) THEN "Critical"
    ELSE IF risk_level = "High" /\ Gt(c.total_lifetime_revenue, 5000) THEN "High"
    ELSE IF risk_level = "Medium" /\ Gt(c.total_lifetime_revenue, 10000) THEN "High"
    ELSE IF risk_level = "High" THEN "Medium"
    ELSE "Low"

calculate_timeline(risk_level) ==
    IF risk_level = "High" THEN "Immediate (within 24 hours)"
    ELSE IF risk_level = "Medium" THEN "Urgent (within 1 week)"
    ELSE "Standard (within 2 weeks)"

calculate_expected_outcome(risk_level, confidence) ==
    IF risk_level = "High" /\ confidence = "High"
        THEN "High probability of retention with immediate action"
    ELSE IF risk_level = "High"
        THEN "Moderate probability of retention with targeted efforts"
    ELSE IF risk_level = "Medium"
        THEN "Good probability of retention with standard approach"
    ELSE "Maintain current relationship and monitor"

get_high_risk_actions(c) ==
    { "Schedule immediate executive call", "Conduct emergency satisfaction survey",
      "Offer retention discount or special terms", "Assign dedicated account manager",
      "Implement daily monitoring and alerts" }
    \cup (IF Gt(c.total_lifetime_revenue, 10000)
          THEN { "Escalate to C-level executive", "Prepare custom retention proposal" }
          ELSE {})

get_medium_risk_actions ==
    { "Schedule proactive check-in call", "Send personalized engagement content",
      "Offer additional training or support", "Conduct quarterly business review",
      "Implement weekly monitoring" }

get_low_risk_actions ==
    { "Maintain regular communication", "Share relevant product updates",
      "Identify upsell opportunities", "Conduct annual satisfaction survey",
      "Monitor engagement trends" }

FactorActions(factor) ==
    CASE factor = "Engagement" ->
            { "Send personalized re-engagement email campaign",
              "Schedule feature training session",
              "Provide usage analytics and insights" }
      [] factor = "Revenue" ->
            { "Review pricing and value proposition",
              "Offer retention discount or upgrade",
              "Conduct business value assessment" }
      [] factor = "Support" ->
            { "Assign dedicated support representative",
              "Conduct support satisfaction survey",
              "Implement proactive support monitoring" }
      [] factor = "Satisfaction" ->
            { "Conduct detailed satisfaction interview",
              "Address specific pain points",
              "Implement feedback-driven improvements" }
      [] OTHER -> {}

\* the actions collected by generate_recommendations before set() and [:5]
ActionPool(analysis, c) ==
    (IF analysis.risk_level = "High" THEN get_high_risk_actions(c)
     ELSE IF analysis.risk_level = "Medium" THEN get_medium_risk_actions
     ELSE get_low_risk_actions)
    \cup UNION { FactorActions(factor) : factor \in analysis.key_factors }

\* every action string of lines 201-222 and 309-346
AllActions ==
    << "Schedule immediate executive call", "Conduct emergency satisfaction survey",
       "Offer retention discount or special terms", "Assign dedicated account manager",
       "Implement daily monitoring and alerts", "Escalate to C-level executive",
       "Prepare custom retention proposal", "Schedule proactive check-in call",
       "Send personalized engagement content", "Offer additional training or support",
       "Conduct quarterly business review", "Implement weekly monitoring",
       "Maintain regular communication", "Share relevant product updates",
       "Identify upsell opportunities", "Conduct annual satisfaction survey",
       "Monitor engagement trends",
       "Send personalized re-engagement email campaign",
       "Schedule feature training session", "Provide usage analytics and insights",
       "Review pricing and value proposition", "Offer retention discount or upgrade",
       "Conduct business value assessment",
       "Assign dedicated support representative",
       "Conduct support satisfaction survey",
       "Implement proactive support monitoring",
       "Conduct detailed satisfaction interview", "Address specific pain points",
       "Implement feedback-driven improvements" >>

\* the string hash seeds an interpreter can start with
HashSeeds == {1, 3, 30}

\* hash(str) under a seed: a salted injection of the strings into 0..30
StringHash(seed, action) ==
    ((CHOOSE i \in 1..Len(AllActions) : AllActions[i] = action) * seed) % 31

\* the slots of a hash table holding every action string, in iteration order
TableOrder ==
    [seed \in HashSeeds |->
        [i \in 1..Len(AllActions) |->
            CHOOSE a \in { AllActions[k] : k \in 1..Len(AllActions) } :
                Cardinality({ k \in 1..Len(AllActions) :
                    StringHash(seed, AllActions[k]) < StringHash(seed, a) }) = i - 1]]

\* list(set(actions)): the distinct strings in the order of their slots
ListOfSet(seed, actions) ==
    SelectSeq(TableOrder[seed], LAMBDA a : a \in actions)

\* a slice without the limit of line 226
Unlimited(actions) == actions

\* actions[:5]
FirstFive(actions) ==
    SubSeq(actions, 1, IF Len(actions) < 5 THEN Len(actions) ELSE 5)

NoRecommendations == [risk_level |-> "none"]

\* RuleBasedDecisionEngine.generate_recommendations in an interpreter started
\* with the hash seed
engine_generate_recommendations(analysis, c, seed) ==
    [ risk_level |-> analysis.risk_level,
      priority |-> calculate_priority(analysis.risk_level, c),
      recommended_actions |-> FirstFive(ListOfSet(seed, ActionPool(analysis, c))),
      timeline |-> calculate_timeline(analysis.risk_level),
      expected_outcome |-> calculate_expected_outcome(analysis.risk_level,
                                                      analysis.confidence) ]

ErrorResult(c) ==
    [ customer_pk |-> c.customer_pk,
      risk_score |-> 0, risk_level |-> "Unknown", priority |-> "Unknown",
      recommended_action |-> "Error in analysis", timeline |-> "Unknown",
      expected_outcome |-> "Analysis failed", key_factors |-> {"Error"},
      confidence |-> "Low" ]

\* the row process_customer_batch appends for one customer
BatchRow(c, e, seed) ==
    IF AnalysisRaises(c) THEN ErrorResult(c)
    ELSE LET analysis == analyze_customer_risk(c, e)
             generated == engine_generate_recommendations(analysis, c, seed)
         IN  [ customer_pk |-> c.customer_pk,
               risk_score |-> analysis.composite_risk_score,
               risk_level |-> analysis.risk_level,
               priority |-> generated.priority,
               recommended_action |->
                   IF generated.recommended_actions # <<>>
                   THEN generated.recommended_actions[1] ELSE "Monitor",
               timeline |-> generated.timeline,
               expected_outcome |-> generated.expected_outcome,
               key_factors |-> analysis.key_factors,
               confidence |-> analysis.confidence ]

\* a batch loop that leaves out the customers whose analysis raises
process_customer_batch_skipping_errors(df, e, seed) ==
    LET kept == SelectSeq(df, LAMBDA c : ~AnalysisRaises(c))
    IN  [i \in 1..Len(kept) |-> BatchRow(kept[i], e, seed)]

process_customer_batch(df, e, seed) ==
    [i \in 1..Len(df) |-> BatchRow(df[i], e, seed)]

\* RuleBasedDecisionEngine.process_customer_batch
ProcessCustomerBatch ==
    /\ engine # NoEngine
    /\ batch_results = <<>>
    /\ batch_results' = process_customer_batch(batch_df, engine, hash_seed)
    /\ UNCHANGED <<rule_weights, engine, customer_data, risk_analysis, batch_df,
                   recommendations, hash_seed, pipelineVars>>

\* RuleBasedDecisionEngine.analyze_customer_risk
AnalyzeCustomerRisk ==
    /\ engine # NoEngine
    /\ risk_analysis = NoAnalysis
    /\ risk_analysis' = analyze_customer_risk(customer_data, engine)
    /\ UNCHANGED <<rule_weights, engine, customer_data, batch_df, batch_results,
                   recommendations, hash_seed, pipelineVars>>

\* RuleBasedDecisionEngine.generate_recommendations on the analysed customer
GenerateRecommendations ==
    /\ engine # NoEngine
    /\ risk_analysis # NoAnalysis
    /\ recommendations = NoRecommendations
    /\ recommendations'
         = engine_generate_recommendations(risk_analysis, customer_data, hash_seed)
    /\ UNCHANGED <<rule_weights, engine, customer_data, risk_analysis, batch_df,
                   batch_results, hash_seed, pipelineVars>>

----------------------------------------------------------------------------
(* Orchestrator (orchestrator.py): Bronze ingestion, Silver transformation, *)
(* Gold aggregation, statistics and the final report of one run.           *)

BronzeTables == {"customers", "transactions", "engagement", "support", "surveys"}

NoBronze == [loaded |-> FALSE]

NoStatus ==
    [bronze_ingestion |-> FALSE, silver_transformation |-> FALSE,
     gold_aggregation |-> FALSE, overall_success |-> FALSE]

NoResults == [started |-> FALSE]

\* pipeline_results as run_complete_pipeline creates it; statistics, end_time
\* and duration hold at most one value
NewResults(t) ==
    [started |-> TRUE, start_time |-> t, errors |-> <<>>, warnings |-> <<>>,
     statistics |-> <<>>, end_time |-> <<>>, duration |-> <<>>]

\* df.empty and len(df): the customer table is a sequence, the others are sets
TableEmpty(name, table) == IF name = "customers" THEN table = <<>> ELSE table = {}
TableLen(name, table) == IF name = "customers" THEN Len(table) ELSE Cardinality(table)

NonEmptyTables(bronze) ==
    { name \in BronzeTables : ~TableEmpty(name, bronze.tables[name]) }

\* DataIngestion.load_bronze_data: a missing or unreadable file gives an empty
\* frame; every column read from CSV holds text
load_bronze_data(customers, transactions, engagement, support, surveys) ==
    [loaded |-> TRUE,
     tables |-> [customers |-> customers, transactions |-> transactions,
                 engagement |-> engagement, support |-> support,
                 surveys |-> surveys],
     datetime_columns |-> {}]

Finding(stage, kind, message, data_type) ==
    [stage |-> stage, kind |-> kind, message |-> message, data_type |-> data_type]

\* DataIngestion.validate_bronze_data on tables without missing cells
validate_bronze_data(bronze) ==
    { Finding("bronze", "warning", "No data found", name) :
        name \in BronzeTables \ NonEmptyTables(bronze) }

\* DataIngestion.get_data_summary converts the first date-like text column of
\* every non-empty table to datetime64 in the table it is given
get_data_summary(bronze) ==
    [bronze EXCEPT !.datetime_columns = NonEmptyTables(bronze)]

\* what the clean_* functions leave in the Bronze dictionary they receive:
\* each one works on df = X.copy()
BronzeAfterClean(bronze) == bronze

\* SilverTransform.transform_bronze_to_silver: keys of silver_data, the
\* customer profiles, and the exception raised, if any
transform_bronze_to_silver(bronze) ==
    IF "customers" \notin NonEmptyTables(bronze)
    THEN [error |-> "none", keys |-> NonEmptyTables(bronze), profiles |-> <<>>,
          bronze |-> BronzeAfterClean(bronze)]
    ELSE LET out == calculate_derived_metrics(bronze.tables.customers,
                                              bronze.tables.transactions,
                                              bronze.tables.engagement,
                                              bronze.tables.support,
                                              bronze.tables.surveys)
         IN  [error |-> out.error,
              keys |-> IF out.error = "none"
                       THEN NonEmptyTables(bronze) \cup {"customer_profiles"}
                       ELSE {},
              profiles |-> out.profiles,
              bronze |-> BronzeAfterClean(bronze)]

\* the checks _validate_silver_data and _validate_gold_data make on one table
ValidateTable(stage, data_type, rows, required_columns) ==
    IF rows = <<>> THEN { Finding(stage, "warning", "Empty data", data_type) }
    ELSE { Finding(stage, "error", "Missing columns", data_type) :
             c \in { c \in required_columns : ~HasColumn(rows, c) } }
         \cup
         (IF HasColumn(rows, "current_health_score")
             /\ \E i \in 1..Len(rows) : rows[i].current_health_score = NaN
          THEN { Finding(stage, "warning", "Invalid health scores", data_type) }
          ELSE {})

\* DataPipelineOrchestrator._validate_silver_data; the cleaned source tables are
\* non-empty and have no current_health_score column
validate_silver_data(silver) ==
    IF "customer_profiles" \in silver.keys
    THEN ValidateTable("silver", "customer_profiles", silver.profiles,
                       {"customer_pk", "current_health_score", "churn_risk_level"})
    ELSE {}

\* GoldAggregation._save_gold_data: one parquet file per non-empty table
save_gold_data(files, data) ==
    [n \in SeqToSet(GoldTables) |->
        IF n \in data.keys /\ data.tables[n] # <<>> THEN data.tables[n] ELSE files[n]]

\* an aggregation that writes each table as soon as it is built, so that an
\* exception of a later builder leaves the earlier tables written
GoldOutcomeSavingEachTable(view, kpis, features, chat, files) ==
    LET error == IF kpis.error # "none" THEN kpis.error
                 ELSE IF features.error # "none" THEN features.error
                 ELSE chat.error
        data == [keys |-> { GoldTables[1] }
                          \cup (IF kpis.error = "none" THEN { GoldTables[2] } ELSE {})
                          \cup (IF kpis.error = "none" /\ features.error = "none"
                                THEN { GoldTables[3] } ELSE {})
                          \cup (IF error = "none" THEN { GoldTables[4] } ELSE {}),
                 tables |->
                    [n \in SeqToSet(GoldTables) |->
                       CASE n = GoldTables[1] -> view
                         [] n = GoldTables[2] -> kpis.rows
                         [] n = GoldTables[3] -> features.rows
                         [] OTHER -> chat.rows]]
    IN  [error |-> error, view |-> view, kpis |-> kpis, features |-> features,
         chat |-> chat, data |-> IF error = "none" THEN data ELSE NoGoldData,
         files |-> save_gold_data(files, data)]

\* the end of aggregate_silver_to_gold: an exception of a builder leaves the
\* function before anything is saved, otherwise the four tables are saved
GoldOutcome(view, kpis, features, chat, files) ==
    LET error == IF kpis.error # "none" THEN kpis.error
                 ELSE IF features.error # "none" THEN features.error
                 ELSE chat.error
        data == [keys |-> SeqToSet(GoldTables),
                 tables |->
                    [n \in SeqToSet(GoldTables) |->
                       CASE n = GoldTables[1] -> view
                         [] n = GoldTables[2] -> kpis.rows
                         [] n = GoldTables[3] -> features.rows
                         [] OTHER -> chat.rows]]
    IN  IF error = "none"
        THEN [error |-> "none", view |-> view, kpis |-> kpis, features |-> features,
              chat |-> chat, data |-> data, files |-> save_gold_data(files, data)]
        ELSE [error |-> error, view |-> view, kpis |-> kpis, features |-> features,
              chat |-> chat, data |-> NoGoldData, files |-> files]

AfterFeatures(view, kpis, features, files, times) ==
    GoldOutcome(view, kpis, features,
                IF kpis.error = "none" /\ features.error = "none"
                THEN create_chatbot_context(view, times) ELSE NoTable,
                files)

AfterKpis(view, kpis, files, t3, times) ==
    AfterFeatures(view, kpis,
                  IF kpis.error = "none"
                  THEN create_ai_model_features(view, t3) ELSE NoTable,
                  files, times)

AfterView(view, files, t2, t3, times) ==
    AfterKpis(view, create_dashboard_kpis(view, t2), files, t3, times)

\* GoldAggregation.aggregate_silver_to_gold: the four builders in order, each
\* reading the clock, then _save_gold_data
aggregate_silver_to_gold(profiles, files, seed, t1, t2, t3, times) ==
    IF profiles = <<>>
    THEN [error |-> "none", view |-> <<>>, kpis |-> NoTable, features |-> NoTable,
          chat |-> NoTable, data |-> NoGoldData, files |-> files]
    ELSE AfterView(create_customer_360_view(profiles, seed, t1), files, t2, t3, times)

\* DataPipelineOrchestrator._validate_gold_data
validate_gold_data(data) ==
    UNION { ValidateTable("gold", n, data.tables[n],
                          IF n = GoldTables[1]
                          THEN {"customer_pk", "current_health_score",
                                "churn_risk_level", "recommended_action"}
                          ELSE {}) : n \in data.keys }

\* a run that carries on with the next stage whatever the stage raised
AfterStageIgnoringFailure(error, done) == done

\* the position after a stage: an exception leaves the try block
AfterStage(error, done) == IF error = "none" THEN done ELSE "except"

\* a stage flag that records the outcome of the stage in the current run
StageOutcomeRecorded(status, stage, error) ==
    [status EXCEPT ![stage] = (error = "none")]

\* the flag of a stage is set once the stage has returned; a stage that raises
\* leaves the flags as they are
StageCompleted(status, stage, error) ==
    IF error = "none" THEN [status EXCEPT ![stage] = TRUE] ELSE status

\* DataPipelineOrchestrator.get_pipeline_status
get_pipeline_status(status) ==
    [status |-> status, overall_success |-> status.overall_success]

\* run_complete_pipeline, step 1: _run_bronze_ingestion loads and validates
LoadBronzeData ==
    /\ run = "idle"
    /\ bronze_data' = load_bronze_data(customers_df, transactions_df, engagement_df,
                                       support_df, surveys_df)
    /\ findings' = findings \cup validate_bronze_data(bronze_data')
    /\ pipeline_results' = NewResults(now)
    /\ run' = "bronze_loaded"
    /\ now' \in Tick(now)
    /\ UNCHANGED <<customers_df, transactions_df, engagement_df, support_df,
                   surveys_df, pc, silver_error, customer_profiles, customer_360,
                   log, engineVars, goldVars, pipeline_status>>

\* _run_bronze_ingestion summarises the loaded tables and returns them
GetDataSummary ==
    /\ run = "bronze_loaded"
    /\ bronze_data' = get_data_summary(bronze_data)
    /\ pipeline_status' = [pipeline_status EXCEPT !.bronze_ingestion = TRUE]
    /\ run' = "bronze_done"
    /\ UNCHANGED <<customers_df, transactions_df, engagement_df, support_df,
                   surveys_df, pc, silver_error, customer_profiles, customer_360,
                   log, engineVars, now, goldVars, pipeline_results, findings>>

\* run_complete_pipeline, step 2: _run_silver_transformation
RunSilverTransformation ==
    /\ run = "bronze_done"
    /\ LET silver == transform_bronze_to_silver(bronze_data)
       IN  /\ bronze_data' = silver.bronze
           /\ customer_profiles' = silver.profiles
           /\ silver_error' = silver.error
           /\ findings' = IF silver.error = "none"
                          THEN findings \cup validate_silver_data(silver)
                          ELSE findings
           /\ pipeline_status' =
                 StageCompleted(pipeline_status, "silver_transformation",
                                silver.error)
           /\ run' = AfterStage(silver.error, "silver_done")
           /\ log' = IF bronze_data.tables.customers = <<>> THEN log
                     ELSE log \o
                          << Info("Calculating derived metrics for customer profiles",
                                  0) >>
                          \o (IF silver.error = "none"
                              THEN << Info("Derived metrics calculation completed",
                                           Len(silver.profiles)) >>
                              ELSE <<>>)
    /\ UNCHANGED <<customers_df, transactions_df, engagement_df, support_df,
                   surveys_df, pc, customer_360, engineVars, now, goldVars,
                   pipeline_results>>

\* run_complete_pipeline, step 3: _run_gold_aggregation
RunGoldAggregation ==
    /\ run = "silver_done"
    /\ \E seed \in RandomStates, t2 \in Tick(now) :
       \E t3 \in Tick(t2) :
       \E times \in RowTimes(Len(customer_profiles), t3) :
       \E gold \in { aggregate_silver_to_gold(customer_profiles, gold_files, seed,
                                               now, t2, t3, times) } :
             /\ customer_360' = gold.view
             /\ kpi_snapshot' = gold.kpis
             /\ model_features' = gold.features
             /\ chat_context' = gold.chat
             /\ gold_data' = gold.data
             /\ gold_error' = gold.error
             /\ gold_files' = gold.files
             /\ findings' = IF gold.error = "none"
                            THEN findings \cup validate_gold_data(gold.data)
                            ELSE findings
             /\ pipeline_status' =
                   StageCompleted(pipeline_status, "gold_aggregation", gold.error)
             /\ run' = AfterStage(gold.error, "gold_done")
             /\ now' = IF customer_profiles = <<>> THEN now
                       ELSE IF gold.kpis.error # "none" THEN t2
                       ELSE IF gold.features.error # "none" THEN t3
                       ELSE times[Len(times)]
    /\ UNCHANGED <<customers_df, transactions_df, engagement_df, support_df,
                   surveys_df, pc, silver_error, customer_profiles, log,
                   engineVars, bronze_data, pipeline_results>>

\* DataPipelineOrchestrator._generate_pipeline_statistics
generate_pipeline_statistics(bronze, silver_keys, profiles, data) ==
    [bronze_records |->
        SeqSum([i \in 1..5 |->
                  LET name == <<"customers", "transactions", "engagement",
                                "support", "surveys">>[i]
                  IN  TableLen(name, bronze.tables[name])]),
     silver_records |->
        SeqSum([i \in 1..5 |->
                  LET name == <<"customers", "transactions", "engagement",
                                "support", "surveys">>[i]
                  IN  IF name \in silver_keys
                      THEN TableLen(name, bronze.tables[name]) ELSE 0])
        + Len(profiles),
     gold_records |->
        SeqSum([i \in 1..4 |->
                  IF GoldTables[i] \in data.keys
                  THEN Len(data.tables[GoldTables[i]]) ELSE 0])]

\* run_complete_pipeline, step 4 and the rest of the try block
GeneratePipelineStatistics ==
    /\ run = "gold_done"
    /\ pipeline_results' =
          [pipeline_results EXCEPT
              !.statistics =
                  << generate_pipeline_statistics(
                        bronze_data, NonEmptyTables(bronze_data),
                        customer_profiles, gold_data) >>,
              !.end_time = << now >>,
              !.duration = << now - pipeline_results.start_time >>]
    /\ pipeline_status' = [pipeline_status EXCEPT !.overall_success = TRUE]
    /\ run' = "logging"
    /\ UNCHANGED <<customers_df, transactions_df, engagement_df, support_df,
                   surveys_df, pc, silver_error, customer_profiles, customer_360,
                   log, engineVars, now, goldVars, bronze_data, findings>>

\* run_complete_pipeline, the except clause
ExceptHandler ==
    /\ run = "except"
    /\ pipeline_results' =
          [pipeline_results EXCEPT
              !.errors = Append(@, IF silver_error # "none" THEN silver_error
                                   ELSE gold_error),
              !.end_time = << now >>,
              !.duration = << now - pipeline_results.start_time >>]
    /\ run' = "logging"
    /\ UNCHANGED <<customers_df, transactions_df, engagement_df, support_df,
                   surveys_df, pc, silver_error, customer_profiles, customer_360,
                   log, engineVars, now, goldVars, bronze_data, pipeline_status,
                   findings>>

\* _log_pipeline_results reads stats['bronze_records'] whenever the record has
\* a statistics entry, which it always has; on an empty dictionary this raises
log_pipeline_results(results) ==
    IF results.statistics = <<>> THEN "KeyError" ELSE "none"

\* run_complete_pipeline, after the try statement: the report is logged and
\* the record returned, or the exception of the logging leaves the method
LogPipelineResults ==
    /\ run = "logging"
    /\ run' = IF log_pipeline_results(pipeline_results) = "none"
              THEN "returned" ELSE "raised"
    /\ UNCHANGED <<customers_df, transactions_df, engagement_df, support_df,
                   surveys_df, pc, silver_error, customer_profiles, customer_360,
                   log, engineVars, now, goldVars, bronze_data, pipeline_status,
                   pipeline_results, findings>>

\* run_complete_pipeline is called again on the same orchestrator: the record
\* and the tables of the earlier call are gone with its frame, the customer
\* file is read as it is found now, and pipeline_status, the Gold files and the
\* clock are as the earlier call left them
RunCompletePipelineAgain ==
    /\ run \in {"returned", "raised"}
    /\ run' = "idle"
    /\ customers_df' \in CustomerTables \cup { <<>> }
    /\ silver_error' = "none"
    /\ customer_profiles' = <<>>
    /\ customer_360' = <<>>
    /\ log' = <<>>
    /\ kpi_snapshot' = NoTable
    /\ model_features' = NoTable
    /\ chat_context' = NoTable
    /\ gold_data' = NoGoldData
    /\ gold_error' = "none"
    /\ bronze_data' = NoBronze
    /\ pipeline_results' = NoResults
    /\ findings' = {}
    /\ UNCHANGED <<transactions_df, engagement_df, support_df, surveys_df, pc,
                   engineVars, now, gold_files, pipeline_status>>

----------------------------------------------------------------------------
(* Specifications *)

\* a batch over cleaned Silver tables, from aggregation to the Gold view
Init ==
    /\ customers_df \in CustomerTables
    /\ transactions_df \in Collections(TransactionRows)
    /\ engagement_df \in Collections(EngagementRows)
    /\ support_df \in Collections(SupportRows)
    /\ surveys_df \in Collections(SurveyRows)
    /\ pc = "start"
    /\ silver_error = "none"
    /\ customer_profiles = <<>>
    /\ customer_360 = <<>>
    /\ log = <<>>
    /\ rule_weights = DefaultRuleWeights
    /\ engine = NoEngine
    /\ customer_data = NoCustomer
    /\ risk_analysis = NoAnalysis
    /\ batch_df = <<>>
    /\ batch_results = <<>>
    /\ recommendations = NoRecommendations
    /\ hash_seed = 1
    /\ now = 0
    /\ kpi_snapshot = NoTable
    /\ model_features = NoTable
    /\ chat_context = NoTable
    /\ gold_data = NoGoldData
    /\ gold_error = "none"
    /\ gold_files = NoFiles
    /\ bronze_data = NoBronze
    /\ run = "idle"
    /\ pipeline_status = NoStatus
    /\ pipeline_results = NoResults
    /\ findings = {}

Next == CalculateDerivedMetrics \/ CreateCustomer360View

Spec == Init /\ [][Next]_vars

\* the decision engine, constructed from a loaded configuration
InitEngine ==
    /\ customers_df = <<>>
    /\ transactions_df = {}
    /\ engagement_df = {}
    /\ support_df = {}
    /\ surveys_df = {}
    /\ pc = "idle"
    /\ silver_error = "none"
    /\ customer_profiles = <<>>
    /\ customer_360 = <<>>
    /\ log = <<>>
    /\ rule_weights \in WeightFixtures
    /\ engine = NoEngine
    /\ customer_data \in CustomerRecords
    /\ risk_analysis = NoAnalysis
    /\ batch_df \in BatchesOf(customer_data)
    /\ batch_results = <<>>
    /\ recommendations = NoRecommendations
    /\ hash_seed \in HashSeeds
    /\ now = 0
    /\ kpi_snapshot = NoTable
    /\ model_features = NoTable
    /\ chat_context = NoTable
    /\ gold_data = NoGoldData
    /\ gold_error = "none"
    /\ gold_files = NoFiles
    /\ bronze_data = NoBronze
    /\ run = "idle"
    /\ pipeline_status = NoStatus
    /\ pipeline_results = NoResults
    /\ findings = {}

NextEngine ==
    EngineInit \/ AnalyzeCustomerRisk \/ GenerateRecommendations
      \/ ProcessCustomerBatch

SpecEngine == InitEngine /\ [][NextEngine]_vars

\* Gold aggregation over a customer_profiles table as Silver stores it: the
\* merged per-source metrics of each customer, scored by _calculate_health_score
TxSummary(revenue) ==
    [total_lifetime_revenue |-> revenue, average_transaction_value |-> revenue * 100,
     total_transactions_count |-> 1, days_since_last_transaction |-> 10]
EngSummary(score, days) ==
    [total_engagement_events |-> 1, unique_event_types |-> 1,
     days_since_last_engagement |-> days, engagement_score |-> score]
SupSummary(tickets, satisfaction) ==
    [total_support_tickets_lifetime |-> tickets,
     avg_satisfaction_score_lifetime |-> satisfaction,
     days_since_last_support_ticket |-> 15]
SurveySummary(nps) ==
    [avg_nps_score_lifetime |-> nps * 100, most_recent_nps_score |-> nps,
     days_since_last_survey |-> 12]

GoldRows ==
    { tx @@ en @@ su @@ sv :
        tx \in {TransactionNaN} \cup
               { TxSummary(r) : r \in {3000, 5000, 10000, 20000, 25000} },
        en \in { EngagementNaN, EngSummary(200, 10), EngSummary(400, 45),
                 EngSummary(700, 10), EngSummary(750, 10) },
        su \in { SupportNaN, SupSummary(4, 250), SupSummary(6, 400),
                 SupSummary(6, 100) },
        sv \in { SurveyNaN, SurveySummary(1), SurveySummary(2), SurveySummary(3),
                 SurveySummary(5) } }

\* one row for each combination of the four churn-risk factors, k in 0..15
FactorRowAt(k) ==
    (IF k % 2 = 1 THEN TxSummary(5000) ELSE TransactionNaN)
      @@ (IF (k \div 2) % 2 = 1 THEN EngSummary(750, 10) ELSE EngagementNaN)
      @@ (IF (k \div 4) % 2 = 1 THEN SupSummary(6, 400) ELSE SupportNaN)
      @@ (IF (k \div 8) % 2 = 1 THEN SurveySummary(3) ELSE SurveySummary(2))

FactorRows == { FactorRowAt(k) : k \in 0..15 }

\* single customers over GoldRows, and populations of 2..MaxPopulation customers
\* over FactorRows, listed in the order of k
GoldPopulations ==
    { << r >> : r \in GoldRows }
      \cup UNION { { [i \in 1..n |-> FactorRowAt(f[i])] :
                       f \in { g \in [1..n -> 0..15] :
                                 \A i \in 1..(n - 1) : g[i] <= g[i + 1] } } :
                   n \in 2..MaxPopulation }

\* account statuses of a population: all Active, the first Churned, or none of
\* the two
StatusVectors(n) ==
    { [i \in 1..n |-> "Active"],
      [i \in 1..n |-> IF i = 1 THEN "Churned" ELSE "Active"],
      [i \in 1..n |-> "Trial"] }

WithPk(rows, statuses) ==
    [i \in 1..Len(rows) |->
        [CustomerRow(IdOrder[i]) EXCEPT !.account_status_standardized = statuses[i]]
          @@ rows[i]]

InitGold ==
    /\ \E p \in GoldPopulations :
         /\ customers_df = [i \in 1..Len(p) |-> IdOrder[i]]
         /\ \E statuses \in StatusVectors(Len(p)) :
               customer_profiles = calculate_health_score(WithPk(p, statuses))
    /\ transactions_df = {}
    /\ engagement_df = {}
    /\ support_df = {}
    /\ surveys_df = {}
    /\ pc = "silver_done"
    /\ silver_error = "none"
    /\ customer_360 = <<>>
    /\ log = <<>>
    /\ rule_weights = DefaultRuleWeights
    /\ engine = NoEngine
    /\ customer_data = NoCustomer
    /\ risk_analysis = NoAnalysis
    /\ batch_df = <<>>
    /\ batch_results = <<>>
    /\ recommendations = NoRecommendations
    /\ hash_seed = 1
    /\ now = 0
    /\ kpi_snapshot = NoTable
    /\ model_features = NoTable
    /\ chat_context = NoTable
    /\ gold_data = NoGoldData
    /\ gold_error = "none"
    /\ gold_files = NoFiles
    /\ bronze_data = NoBronze
    /\ run = "idle"
    /\ pipeline_status = NoStatus
    /\ pipeline_results = NoResults
    /\ findings = {}

NextGold ==
    \/ CreateCustomer360View
    \/ CreateDashboardKpis
    \/ CreateAiModelFeatures
    \/ CreateChatbotContext

SpecGold == InitGold /\ [][NextGold]_vars

\* source files whose rows all belong to the first customer
SourceFixtures(U) == { S \in Collections(U) : \A r \in S : r.customer_id = "c1" }

\* Gold files left by an earlier batch
PublishedBefore ==
    [n \in SeqToSet(GoldTables) |-> << [customer_pk |-> "c0"] >>]

\* a run of the orchestrator over the Bronze files, the customer file possibly
\* missing or empty
InitPipeline ==
    /\ customers_df \in CustomerTables \cup { <<>> }
    /\ transactions_df \in SourceFixtures(TransactionRows)
    /\ engagement_df \in SourceFixtures(EngagementRows)
    /\ support_df \in SourceFixtures(SupportRows)
    /\ surveys_df \in SourceFixtures(SurveyRows)
    /\ pc = "idle"
    /\ silver_error = "none"
    /\ customer_profiles = <<>>
    /\ customer_360 = <<>>
    /\ log = <<>>
    /\ rule_weights = DefaultRuleWeights
    /\ engine = NoEngine
    /\ customer_data = NoCustomer
    /\ risk_analysis = NoAnalysis
    /\ batch_df = <<>>
    /\ batch_results = <<>>
    /\ recommendations = NoRecommendations
    /\ hash_seed = 1
    /\ now = 0
    /\ kpi_snapshot = NoTable
    /\ model_features = NoTable
    /\ chat_context = NoTable
    /\ gold_data = NoGoldData
    /\ gold_error = "none"
    /\ gold_files \in {NoFiles, PublishedBefore}
    /\ bronze_data = NoBronze
    /\ run = "idle"
    /\ pipeline_status = NoStatus
    /\ pipeline_results = NoResults
    /\ findings = {}

NextPipeline ==
    \/ LoadBronzeData
    \/ GetDataSummary
    \/ RunSilverTransformation
    \/ RunGoldAggregation
    \/ GeneratePipelineStatistics
    \/ ExceptHandler
    \/ LogPipelineResults

SpecPipeline == InitPipeline /\ [][NextPipeline]_vars

\* any number of runs on one orchestrator
NextRuns == NextPipeline \/ RunCompletePipelineAgain

SpecRuns == InitPipeline /\ [][NextRuns]_vars

----------------------------------------------------------------------------
(* Properties *)

Aggregated == pc \in {"silver_done", "silver_failed", "gold_done"}
Scored == pc \in {"silver_done", "gold_done"}
HasEvents(df, id) == \E r \in df : r.customer_id = id
UnknownRows(df) == { r \in df : r.customer_id \notin SeqToSet(customers_df) }
DroppedRowCount ==
    Cardinality(UnknownRows(transactions_df)) + Cardinality(UnknownRows(engagement_df))
      + Cardinality(UnknownRows(support_df)) + Cardinality(UnknownRows(surveys_df))

\* C1: calculate_derived_metrics does not fail and returns exactly one profile
\* row for every row of the customer table, in the table's order, whatever the
\* four event collections hold.
C1_OneProfilePerCustomer ==
    Aggregated =>
        /\ silver_error = "none"
        /\ Len(customer_profiles) = Len(customers_df)
        /\ \A i \in 1..Len(customers_df) :
              customer_profiles[i].customer_pk = customers_df[i]

\* C2: a customer without events in a source has, in the aggregated profile,
\* 0 in that source's totals, means and counts and 999 in its days-since field.
C2_DefaultsForMissingSources ==
    Scored =>
        \A i \in 1..Len(customer_profiles) :
            LET c == customer_profiles[i] IN
            /\ ~HasEvents(transactions_df, c.customer_pk) =>
                  /\ c.total_lifetime_revenue = 0
                  /\ c.average_transaction_value = 0
                  /\ c.total_transactions_count = 0
                  /\ c.days_since_last_transaction = 999
            /\ ~HasEvents(engagement_df, c.customer_pk) =>
                  /\ c.engagement_score = 0
                  /\ c.total_engagement_events = 0
                  /\ c.unique_event_types = 0
                  /\ c.days_since_last_engagement = 999
            /\ ~HasEvents(support_df, c.customer_pk) =>
                  /\ c.total_support_tickets_lifetime = 0
                  /\ c.avg_satisfaction_score_lifetime = 0
                  /\ c.days_since_last_support_ticket = 999
            /\ ~HasEvents(surveys_df, c.customer_pk) =>
                  /\ c.avg_nps_score_lifetime = 0
                  /\ c.most_recent_nps_score = 0
                  /\ c.days_since_last_survey = 999

\* C3: event rows of unknown customers are dropped: the outcome of the
\* aggregation equals the outcome on the collections without those rows, and
\* the number of dropped rows is logged as a warning count.
C3_UnknownRowsDroppedAndCounted ==
    Aggregated =>
        LET out == calculate_derived_metrics(customers_df,
                        transactions_df \ UnknownRows(transactions_df),
                        engagement_df \ UnknownRows(engagement_df),
                        support_df \ UnknownRows(support_df),
                        surveys_df \ UnknownRows(surveys_df))
        IN  /\ silver_error = out.error
            /\ customer_profiles = out.profiles
            /\ DroppedRowCount > 0 =>
                  \E k \in 1..Len(log) :
                      log[k].level = "WARNING" /\ log[k].count = DroppedRowCount

\* C4: every health score is a defined number in [0, 100], and scoring the
\* scored profiles again gives the same scores.
C4_HealthScoreInRange ==
    Scored =>
        \A i \in 1..Len(customer_profiles) :
            /\ customer_profiles[i].current_health_score # NaN
            /\ customer_profiles[i].current_health_score >= 0
            /\ customer_profiles[i].current_health_score <= 1000
            /\ calculate_health_score(customer_profiles)[i].current_health_score
                  = customer_profiles[i].current_health_score

\* C5: when a normalized signal (engagement, revenue) has the same value for
\* every customer of the population, its normalized value is 0.0 for every
\* customer and the health score is a defined number.
C5_DegenerateSignalNormalizesToZero ==
    Scored =>
        LET n    == Len(customer_profiles)
            engs == { customer_profiles[i].engagement_score : i \in 1..n }
            revs == { customer_profiles[i].total_lifetime_revenue : i \in 1..n }
            degE == Cardinality(engs) = 1
            degR == Cardinality(revs) = 1
        IN  (degE \/ degR) =>
              \A i \in 1..n :
                 LET c == customer_profiles[i] IN
                 /\ c.current_health_score # NaN
                 /\ c.current_health_score =
                       WeightedHealth(IF degE THEN 0 ELSE c.engagement_score,
                                      IF degE THEN 1 ELSE MaxOf(engs),
                                      IF degR THEN 0 ELSE c.total_lifetime_revenue,
                                      IF degR THEN 1 ELSE MaxOf(revs),
                                      c.avg_satisfaction_score_lifetime,
                                      c.most_recent_nps_score)

\* C6: with rule weights that do not sum to 1.0 the engine is not constructed
\* and no customer is scored.
C6_WeightsValidatedAtLoad ==
    WeightSum(rule_weights) # 10 =>
        /\ engine = NoEngine
        /\ risk_analysis = NoAnalysis

RiskRank(level) == CASE level = "Low" -> 0 [] level = "Medium" -> 1 [] level = "High" -> 2

RiskFactorSet(c) ==
    { f \in {"engagement", "revenue", "support", "nps"} :
        CASE f = "engagement" -> low_engagement(c)
          [] f = "revenue"    -> low_revenue(c)
          [] f = "support"    -> high_support_tickets(c)
          [] f = "nps"        -> low_nps(c) }

C8_SegmentFromRevenueAndRisk ==
    pc = "gold_done" =>
        \A i \in 1..Len(customer_360) :
            LET c == customer_360[i]
                r == c.total_lifetime_revenue
            IN  /\ r > 20000 =>
                      c.client_segment \in {"High-Value", "High-Value At-Risk"}
                /\ (r > 5000 /\ r <= 20000) =>
                      c.client_segment \in {"Medium-Value", "Medium-Value At-Risk"}
                /\ r <= 5000 => c.client_segment \in {"SMB", "SMB At-Risk"}
                /\ (c.client_segment \in
                       {"High-Value At-Risk", "Medium-Value At-Risk", "SMB At-Risk"})
                     <=> (c.churn_risk_level # "Low")

\* a customer with exactly 20,000 of revenue and one with exactly 5,000
C8_Witness ==
    /\ pc = "gold_done"
    /\ \E i \in 1..Len(customer_360) :
          /\ customer_360[i].total_lifetime_revenue = 20000
          /\ customer_360[i].client_segment = "Medium-Value At-Risk"

\* C9: upsell_flag is true exactly when the risk level is Low and revenue is
\* above 3,000; cross_sell_flag exactly when the risk level is Low and
\* engagement_score is above 0.7.
C9_OpportunityFlags ==
    pc = "gold_done" =>
        \A i \in 1..Len(customer_360) :
            LET c == customer_360[i] IN
            /\ c.upsell_opportunity_flag
                 <=> (c.churn_risk_level = "Low" /\ c.total_lifetime_revenue > 3000)
            /\ c.cross_sell_opportunity_flag
                 <=> (c.churn_risk_level = "Low" /\ c.engagement_score > 700)

\* a Low-risk customer with engagement_score exactly 0.7: upsell without cross-sell
C9_Witness ==
    /\ pc = "gold_done"
    /\ \E i \in 1..Len(customer_360) :
          /\ customer_360[i].churn_risk_level = "Low"
          /\ customer_360[i].engagement_score = 700
          /\ customer_360[i].upsell_opportunity_flag
          /\ ~customer_360[i].cross_sell_opportunity_flag

\* C10: for a High-risk customer the action is that of the first rule that
\* matches, in the order revenue above 10,000, more than 30 days since the last
\* engagement, NPS below 3, fallback.
C10_HighRiskPrecedence ==
    pc = "gold_done" =>
        \A i \in 1..Len(customer_360) :
            LET c == customer_360[i]
                high_revenue == c.total_lifetime_revenue > 10000
                stale == c.days_since_last_engagement > 30
                unhappy == c.most_recent_nps_score < 3
            IN  c.churn_risk_level = "High" =>
                  c.recommended_action =
                    (IF high_revenue
                        THEN "Schedule proactive call with senior account manager"
                     ELSE IF stale THEN "Send personalized re-engagement campaign"
                     ELSE IF unhappy
                        THEN "Conduct satisfaction survey and address concerns"
                     ELSE "Offer retention discount or additional support")

\* a High-risk customer for whom all three conditions hold at once
C10_Witness ==
    /\ pc = "gold_done"
    /\ \E i \in 1..Len(customer_360) :
          /\ customer_360[i].churn_risk_level = "High"
          /\ customer_360[i].total_lifetime_revenue > 10000
          /\ customer_360[i].days_since_last_engagement > 30
          /\ customer_360[i].most_recent_nps_score < 3
          /\ customer_360[i].recommended_action =
                "Schedule proactive call with senior account manager"

OneRowPerCustomer(rows) ==
    /\ Len(rows) = Len(customer_profiles)
    /\ \A i \in 1..Len(rows) : rows[i].customer_pk = customer_profiles[i].customer_pk

\* C11: each per-customer Gold table built from the customer profiles
\* (customer 360 view, model features, chatbot context) is produced and holds
\* exactly one row for each customer, in the customers' order.
C11_OneRowPerCustomerInEveryTable ==
    pc = "gold_done" =>
        /\ OneRowPerCustomer(customer_360)
        /\ model_features # NoTable =>
              model_features.error = "none" /\ OneRowPerCustomer(model_features.rows)
        /\ chat_context # NoTable =>
              chat_context.error = "none" /\ OneRowPerCustomer(chat_context.rows)


\* C12: every result row of process_customer_batch has a risk_level among Low,
\* Medium, High and a priority among Low, Medium, High, Critical, also for a
\* record whose analysis raises an error
C12_BatchLevelsInRange ==
    \A i \in 1..Len(batch_results) :
        /\ batch_results[i].risk_level \in {"Low", "Medium", "High"}
        /\ batch_results[i].priority \in {"Low", "Medium", "High", "Critical"}


\* a step in which the Silver stage, the Gold stage has acted
SilverActs ==
    \/ pipeline_status'.silver_transformation # pipeline_status.silver_transformation
    \/ silver_error' # silver_error
    \/ customer_profiles' # customer_profiles

GoldActs ==
    \/ pipeline_status'.gold_aggregation # pipeline_status.gold_aggregation
    \/ gold_error' # gold_error
    \/ customer_360' # customer_360
    \/ gold_files' # gold_files

GoldValidationPassed(validated) ==
    ~\E f \in validated : f.stage = "gold" /\ f.kind = "error"

C14_AlwaysReturnsRecord ==
    /\ run # "raised"
    /\ (run = "returned" /\ ~pipeline_status.overall_success) =>
          /\ pipeline_results.errors # <<>>
          /\ pipeline_results.end_time # <<>>
          /\ pipeline_results.duration # <<>>

\* C15: every violation found by the Bronze, Silver or Gold validation of a run
\* is in the warnings list of the record the run ends with
C15_FindingsInWarnings ==
    run \in {"returned", "raised"} =>
        \A f \in findings : f \in SeqToSet(pipeline_results.warnings)

\* C16: a run over an empty or missing customer table ends failed:
\* overall_success is not set and an error is recorded
C16_AbsentCustomersFailTheRun ==
    (run \in {"returned", "raised"} /\ customers_df = <<>>) =>
        /\ ~pipeline_status.overall_success
        /\ pipeline_results.errors # <<>>

\* C17: the Silver stage acts only after the Bronze stage has completed, the
\* Gold stage only after the Silver stage has completed, and no stage acts
\* once a stage has failed
C17_StagesInOrder ==
    [][ /\ SilverActs =>
              /\ pipeline_status.bronze_ingestion
              /\ ~pipeline_status.silver_transformation
              /\ ~pipeline_status.gold_aggregation
        /\ GoldActs =>
              /\ pipeline_status.bronze_ingestion
              /\ pipeline_status.silver_transformation
              /\ silver_error = "none"
              /\ pipeline_results.errors = <<>>
        /\ (silver_error # "none" \/ gold_error # "none") =>
              /\ ~SilverActs
              /\ ~GoldActs ]_vars

\* the Gold stage has acted on the profiles of a completed Silver stage
C17_Witness ==
    /\ pipeline_status.bronze_ingestion
    /\ pipeline_status.silver_transformation
    /\ customer_profiles # <<>>
    /\ customer_360 # <<>>
    /\ run \in {"except", "logging", "raised"}


\* the rows of a built table, none for a table not built
BuiltRows(table) == IF table.error = "none" THEN table.rows ELSE <<>>

\* C18: the tables of one batch carry one batch timestamp: every row of the
\* customer 360 view and of the chatbot context holds it, and the KPI snapshot
\* and the model features hold its date
C18_OneBatchTimestamp ==
    pc = "gold_done" =>
        \E t \in 0..MaxClock :
            /\ \A i \in 1..Len(customer_360) :
                  /\ "dashboard_data_last_refreshed_at" \in DOMAIN customer_360[i]
                  /\ customer_360[i].dashboard_data_last_refreshed_at = t
            /\ \A i \in 1..Len(BuiltRows(kpi_snapshot)) :
                  kpi_snapshot.rows[i].report_date = DateOf(t)
            /\ \A i \in 1..Len(BuiltRows(model_features)) :
                  model_features.rows[i].feature_snapshot_date = DateOf(t)
            /\ \A i \in 1..Len(BuiltRows(chat_context)) :
                  chat_context.rows[i].context_last_updated_at = t


WithoutColumn(rows, column) ==
    [i \in 1..Len(rows) |-> SelectColumns(rows[i], (DOMAIN rows[i]) \ {column})]

\* C19: building the customer 360 view and the KPI snapshot again from the same
\* profiles gives the tables built before, in every column but the timestamp
C19_RepublishIdentical ==
    [][ pc = "gold_done" =>
          /\ WithoutColumn(customer_360', "dashboard_data_last_refreshed_at")
                = WithoutColumn(customer_360, "dashboard_data_last_refreshed_at")
          /\ (kpi_snapshot.error = "none" /\ kpi_snapshot'.error = "none") =>
                WithoutColumn(kpi_snapshot'.rows, "report_date")
                   = WithoutColumn(kpi_snapshot.rows, "report_date") ]_vars


\* C20: a table a stage has produced is never modified afterwards: the Bronze
\* tables stay as they were loaded, whatever the later operations of the run,
\* and the customer profiles stay as the Silver stage returned them
C20_ProducedTablesNotModified ==
    [][ /\ bronze_data.loaded => bronze_data' = bronze_data
        /\ pipeline_status.silver_transformation =>
              customer_profiles' = customer_profiles ]_vars


NoEventsAnywhere(id) ==
    /\ ~HasEvents(transactions_df, id)
    /\ ~HasEvents(engagement_df, id)
    /\ ~HasEvents(support_df, id)
    /\ ~HasEvents(surveys_df, id)

\* the defaults of a customer without events: 0 in every total, mean and count,
\* 999 in every days-since field
NeutralMetrics(c) ==
    /\ c.total_lifetime_revenue = 0
    /\ c.average_transaction_value = 0
    /\ c.total_transactions_count = 0
    /\ c.days_since_last_transaction = 999
    /\ c.engagement_score = 0
    /\ c.total_engagement_events = 0
    /\ c.unique_event_types = 0
    /\ c.days_since_last_engagement = 999
    /\ c.total_support_tickets_lifetime = 0
    /\ c.avg_satisfaction_score_lifetime = 0
    /\ c.days_since_last_support_ticket = 999
    /\ c.avg_nps_score_lifetime = 0
    /\ c.most_recent_nps_score = 0
    /\ c.days_since_last_survey = 999

\* C21: a customer without events in any of the four sources has all-neutral
\* metrics in the profile, the health score of zero inputs, risk level High and
\* the re-engagement action
C21_CustomerWithoutEvents ==
    pc = "gold_done" =>
        \A i \in 1..Len(customer_profiles) :
            NoEventsAnywhere(customer_profiles[i].customer_pk) =>
                /\ NeutralMetrics(customer_profiles[i])
                /\ customer_profiles[i].current_health_score = 0
                /\ customer_360[i].churn_risk_level = "High"
                /\ customer_360[i].recommended_action
                      = "Send personalized re-engagement campaign"


\* the scenario customer: total revenue 25,000 and health score 75.0
ScenarioCustomer(c) ==
    c.total_lifetime_revenue = 25000 /\ c.current_health_score = 750

C23_RecommendationDeterministic ==
    /\ recommendations # NoRecommendations =>
          \A seed \in HashSeeds :
              engine_generate_recommendations(risk_analysis, customer_data, seed)
                = recommendations
    /\ batch_results # <<>> =>
          \A seed \in HashSeeds :
              \A i \in 1..Len(batch_results) :
                  process_customer_batch(batch_df, engine, seed)[i].recommended_action
                    = batch_results[i].recommended_action


\* the classification asserted by test_classify_churn_risk
TestedRiskLevel(c) ==
    IF Lt(c.engagement_score, 300) \/ Gt(c.days_since_last_engagement, 30)
        THEN "High"
    ELSE IF Lt(c.engagement_score, 600) \/ Gt(c.total_support_tickets_lifetime, 5)
        THEN "Medium"
    ELSE "Low"

\* C24: the rules engine classifies a customer High whenever engagement_score
\* is below 0.3 or the last activity is more than 30 days old, otherwise Medium
\* whenever engagement_score is below 0.6 or there are more than 5 support
\* tickets, otherwise Low
C24_ClassifyChurnRisk ==
    risk_analysis # NoAnalysis =>
        risk_analysis.risk_level = TestedRiskLevel(customer_data)


\* C25: process_customer_batch returns exactly one result row per input
\* customer, in input order; a customer whose analysis raises still yields one
\* row, marked as an analysis error, and the customers after it are analysed
C25_OneRowPerBatchCustomer ==
    batch_results # <<>> =>
        /\ Len(batch_results) = Len(batch_df)
        /\ \A i \in 1..Len(batch_df) :
              /\ batch_results[i].customer_pk = batch_df[i].customer_pk
              /\ IF AnalysisRaises(batch_df[i])
                 THEN batch_results[i].recommended_action = "Error in analysis"
                 ELSE /\ batch_results[i].risk_level \in {"Low", "Medium", "High"}
                      /\ batch_results[i].recommended_action # "Error in analysis"

\* a batch whose first customer raised and whose second customer was analysed
C25_Witness ==
    /\ Len(batch_results) = 2
    /\ AnalysisRaises(batch_df[1])
    /\ batch_results[1].recommended_action = "Error in analysis"
    /\ batch_results[2].customer_pk = "c2"
    /\ batch_results[2].risk_level \in {"Low", "Medium", "High"}


\* C30: generate_recommendations returns exactly five pairwise distinct
\* recommended actions, so the 'Monitor' fallback of process_customer_batch is
\* never used for a successfully analysed customer
C30_FiveDistinctActions ==
    /\ recommendations # NoRecommendations =>
          /\ Len(recommendations.recommended_actions) = 5
          /\ Cardinality({ recommendations.recommended_actions[k] : k \in 1..5 }) = 5
          /\ \A k \in 1..5 :
                recommendations.recommended_actions[k]
                  \in ActionPool(risk_analysis, customer_data)
    /\ \A i \in 1..Len(batch_results) :
          batch_results[i].recommended_action # "Monitor"

\* recommendations drawn from a pool of more than five actions, and a batch row
\* of an analysed customer
C30_Witness ==
    /\ recommendations # NoRecommendations
    /\ Cardinality(ActionPool(risk_analysis, customer_data)) > 5
    /\ Len(recommendations.recommended_actions) = 5
    /\ batch_results # <<>>
    /\ batch_results[1].risk_level \in {"Low", "Medium", "High"}


\* the most recent run has returned or raised
RunEnded == run \in {"returned", "raised"}

\* C26: after any number of calls of run_complete_pipeline on one orchestrator,
\* get_pipeline_status reports the most recent run: overall_success is True
\* only if that run completed all three stages, and the flag of a stage is True
\* only if the stage completed in that run
C26_StatusOfMostRecentRun ==
    RunEnded =>
        LET reported == get_pipeline_status(pipeline_status)
        IN  /\ reported.overall_success =>
                  /\ pipeline_results.errors = <<>>
                  /\ pipeline_results.statistics # <<>>
            /\ reported.status.bronze_ingestion => bronze_data.loaded
            /\ reported.status.silver_transformation => silver_error = "none"
            /\ reported.status.gold_aggregation =>
                  /\ silver_error = "none"
                  /\ gold_error = "none"

\* C27: after any sequence of successful and failed runs the flags are nested:
\* overall_success implies gold_aggregation, which implies
\* silver_transformation, which implies bronze_ingestion
C27_FlagsNested ==
    /\ pipeline_status.overall_success => pipeline_status.gold_aggregation
    /\ pipeline_status.gold_aggregation => pipeline_status.silver_transformation
    /\ pipeline_status.silver_transformation => pipeline_status.bronze_ingestion

\* a run that failed in the Gold stage on an orchestrator whose earlier run
\* succeeded
C27_Witness ==
    /\ RunEnded
    /\ gold_error # "none"
    /\ pipeline_results.errors # <<>>
    /\ pipeline_status.overall_success


\* C28: create_dashboard_kpis returns exactly one KPI row with a defined
\* retention rate between 0 and 100 for every non-empty customer_360 view,
\* including a population without Active and without Churned customers
C28_OneKpiRowWithRetentionRate ==
    (kpi_snapshot # NoTable /\ customer_360 # <<>>) =>
        /\ kpi_snapshot.error = "none"
        /\ Len(kpi_snapshot.rows) = 1
        /\ kpi_snapshot.rows[1].overall_retention_rate_30d \in 0..1000


============================================================================
